---- MODULE Spec2Model ----
(***************************************************************************)
(* api/refresh.js: the serverless handler that relays a POST into a GitHub *)
(* workflow-dispatch call.  Several invocations of the handler run on one  *)
(* event loop: each runs synchronously up to its next await, so one action *)
(* of the model is one such segment of one invocation.                     *)
(***************************************************************************)
EXTENDS Integers, Sequences, FiniteSets

\* ---------------------------------------------------------------- bounds
NumInv == 2

Invocations == 1..NumInv

\* ------------------------------------------------------- the environment
Undefined == "<undefined>"

\* values process.env.GITHUB_TOKEN can have: unset, set to "", set to a token
EnvValues == {Undefined, "", "ghp_secret"}

\* req.method values the host runtime delivers
Methods == {"OPTIONS", "POST", "GET", "DELETE"}

\* statuses the upstream may answer with
UpstreamStatuses == {204, 200, 401, 422}

\* upstream body texts
UpstreamTexts == {"", "bad ref"}

\* messages of the errors fetch() or response.text() reject with
FailureMessages == {"ECONNRESET", "fetch failed"}

\* ------------------------------------------------------------- the state
VARIABLES
    env,        \* process.env.GITHUB_TOKEN
    pc,         \* per invocation: where the handler is
    method,     \* per invocation: req.method
    token,      \* per invocation: the local const token
    response,   \* per invocation: the local const response (of fetch)
    headers,    \* per invocation: the headers set on res
    sent,       \* per invocation: the responses written to the client
    requests,   \* the outbound requests issued so far, in order
    outcome     \* per invocation: how the upstream answered its own call

vars == <<env, pc, method, token, response, headers, sent, requests, outcome>>

\* fetch, text: "none", "resolved" or "rejected"
NoOutcome ==
    [fetch |-> "none", status |-> 0, text |-> "none", body |-> "", message |-> ""]

\* ------------------------------------------------------------ res object
\* res.setHeader(name, value): sets or replaces one header
setHeader(h, name, value) ==
    [n \in (DOMAIN h) \cup {name} |-> IF n = name THEN value ELSE h[n]]

NoHeaders == [n \in {} |-> ""]

\* SetCorsHeaders with the third setHeader call left out
SetCorsHeadersNoAllowHeaders(h) ==
    setHeader(setHeader(h,
        "Access-Control-Allow-Origin", "*"),
        "Access-Control-Allow-Methods", "POST, OPTIONS")

\* lines 3-5
SetCorsHeaders(h) ==
    setHeader(setHeader(setHeader(h,
        "Access-Control-Allow-Origin", "*"),
        "Access-Control-Allow-Methods", "POST, OPTIONS"),
        "Access-Control-Allow-Headers", "Content-Type")

\* res.status(code).end(): a response with no body
End(h, code) == [status |-> code, headers |-> h, body |-> [kind |-> "empty"]]

\* res.status(code).json(obj): a response whose body is the object
Json(h, code, obj) ==
    [status |-> code, headers |-> h, body |-> [kind |-> "json", value |-> obj]]

\* ------------------------------------------------- the handler's branches
\* Falsy as the test token === undefined: the empty string passes
FalsyOnlyUndefined(v) == v = Undefined

\* line 16, !token: undefined and the empty string are falsy
Falsy(v) == v = Undefined \/ v = ""

\* Branch with the credential check first
BranchTokenFirst(m, e) ==
    IF Falsy(e) THEN "noToken"
    ELSE IF m = "OPTIONS" THEN "preflight"
    ELSE IF m # "POST" THEN "notAllowed"
    ELSE "dispatch"

\* Branch without the preflight short-circuit of lines 7-9
BranchNoPreflight(m, e) ==
    IF m # "POST" THEN "notAllowed"
    ELSE IF Falsy(e) THEN "noToken"
    ELSE "dispatch"

\* lines 7-18: the order of the handler's checks
Branch(m, e) ==
    IF m = "OPTIONS" THEN "preflight"
    ELSE IF m # "POST" THEN "notAllowed"
    ELSE IF Falsy(e) THEN "noToken"
    ELSE "dispatch"

\* the fetch call of lines 21-32
DispatchRequest(i, tok) ==
    [from |-> i,
     url |-> "https://api.github.com/repos/mclendaniel/chess-dashboard/actions/workflows/update-dashboard.yml/dispatches",
     method |-> "POST",
     authorization |-> "Bearer " \o tok,
     accept |-> "application/vnd.github.v3+json",
     body |-> [ref |-> "main"]]

Init ==
    /\ env \in EnvValues
    /\ pc = [i \in Invocations |-> "idle"]
    /\ method = [i \in Invocations |-> Undefined]
    /\ token = [i \in Invocations |-> "<unread>"]
    /\ response = [i \in Invocations |-> [status |-> 0]]
    /\ headers = [i \in Invocations |-> NoHeaders]
    /\ sent = [i \in Invocations |-> <<>>]
    /\ requests = <<>>
    /\ outcome = [i \in Invocations |-> NoOutcome]

\* lines 1-21: the host calls handler(req, res); it runs to its first
\* return or to the await of fetch
Invoke(i, m) ==
    /\ pc[i] = "idle"
    /\ method' = [method EXCEPT ![i] = m]
    /\ LET h == SetCorsHeaders(headers[i])
           b == Branch(m, env)
       IN /\ headers' = [headers EXCEPT ![i] = h]
          /\ token' = [token EXCEPT ![i] =
                          IF b \in {"noToken", "dispatch"} THEN env ELSE @]
          /\ CASE b = "preflight" ->
                    /\ sent' = [sent EXCEPT ![i] = Append(@, End(h, 200))]
                    /\ pc' = [pc EXCEPT ![i] = "returned"]
                    /\ UNCHANGED requests
               [] b = "notAllowed" ->
                    /\ sent' = [sent EXCEPT ![i] =
                          Append(@, Json(h, 405, [error |-> "Method not allowed"]))]
                    /\ pc' = [pc EXCEPT ![i] = "returned"]
                    /\ UNCHANGED requests
               [] b = "noToken" ->
                    /\ sent' = [sent EXCEPT ![i] =
                          Append(@, Json(h, 500, [error |-> "GitHub token not configured"]))]
                    /\ pc' = [pc EXCEPT ![i] = "returned"]
                    /\ UNCHANGED requests
               [] b = "dispatch" ->
                    /\ requests' = Append(requests, DispatchRequest(i, token'[i]))
                    /\ pc' = [pc EXCEPT ![i] = "awaitFetch"]
                    /\ UNCHANGED sent
    /\ UNCHANGED <<env, response, outcome>>

\* IsNoContent as the test response.ok: any 2xx status
IsNoContentAny2xx(r) == r.status \in 200..299

\* line 34: the upstream's success signal
IsNoContent(r) == r.status = 204

\* line 35
SuccessResponse(h) ==
    Json(h, 200, [success |-> TRUE, message |-> "Dashboard update triggered!"])

\* UpstreamErrorResponse with the status rewritten to a fixed 502
UpstreamErrorResponseFixedStatus(h, r, text) ==
    Json(h, 502, [error |-> "GitHub API error: " \o text])

\* line 38: the upstream's status with its text wrapped
UpstreamErrorResponse(h, r, text) ==
    Json(h, r.status, [error |-> "GitHub API error: " \o text])

\* CatchResponse with a fixed message in place of error.message
CatchResponseGeneric(h, error) == Json(h, 500, [error |-> "Internal Server Error"])

\* line 41: the catch block's response, from the caught error
CatchResponse(h, error) == Json(h, 500, [error |-> error.message])

\* FetchResolved with response held in one module-level variable that every
\* invocation assigns
FetchResolvedShared(i, s) ==
    /\ pc[i] = "awaitFetch"
    /\ outcome' = [outcome EXCEPT ![i].fetch = "resolved", ![i].status = s]
    /\ response' = [j \in Invocations |-> [status |-> s]]
    /\ IF IsNoContent(response'[i])
       THEN /\ sent' = [sent EXCEPT ![i] = Append(@, SuccessResponse(headers[i]))]
            /\ pc' = [pc EXCEPT ![i] = "returned"]
       ELSE /\ pc' = [pc EXCEPT ![i] = "awaitText"]
            /\ UNCHANGED sent
    /\ UNCHANGED <<env, method, token, headers, requests>>

\* lines 21, 34-37: fetch resolves with status s and the handler resumes; it
\* answers on 204 and otherwise runs to the await of response.text()
FetchResolved(i, s) ==
    /\ pc[i] = "awaitFetch"
    /\ outcome' = [outcome EXCEPT ![i].fetch = "resolved", ![i].status = s]
    /\ response' = [response EXCEPT ![i] = [status |-> s]]
    /\ IF IsNoContent(response'[i])
       THEN /\ sent' = [sent EXCEPT ![i] = Append(@, SuccessResponse(headers[i]))]
            /\ pc' = [pc EXCEPT ![i] = "returned"]
       ELSE /\ pc' = [pc EXCEPT ![i] = "awaitText"]
            /\ UNCHANGED sent
    /\ UNCHANGED <<env, method, token, headers, requests>>

\* FetchRejected with one retry of the fetch before the catch block answers
FetchRejectedRetry(i, msg) ==
    /\ pc[i] = "awaitFetch"
    /\ outcome' = [outcome EXCEPT ![i].fetch = "rejected", ![i].message = msg]
    /\ IF Cardinality({k \in 1..Len(requests) : requests[k].from = i}) < 2
       THEN /\ requests' = Append(requests, DispatchRequest(i, token[i]))
            /\ UNCHANGED <<sent, pc>>
       ELSE /\ sent' = [sent EXCEPT ![i] =
                          Append(@, CatchResponse(headers[i], [message |-> msg]))]
            /\ pc' = [pc EXCEPT ![i] = "returned"]
            /\ UNCHANGED requests
    /\ UNCHANGED <<env, method, token, response, headers>>

\* lines 21, 40-42: fetch rejects; the catch block answers
FetchRejected(i, msg) ==
    /\ pc[i] = "awaitFetch"
    /\ outcome' = [outcome EXCEPT ![i].fetch = "rejected", ![i].message = msg]
    /\ sent' = [sent EXCEPT ![i] =
                   Append(@, CatchResponse(headers[i], [message |-> msg]))]
    /\ pc' = [pc EXCEPT ![i] = "returned"]
    /\ UNCHANGED <<env, method, token, response, headers, requests>>

\* lines 37-38: response.text() resolves with the upstream body
TextResolved(i, t) ==
    /\ pc[i] = "awaitText"
    /\ outcome' = [outcome EXCEPT ![i].text = "resolved", ![i].body = t]
    /\ sent' = [sent EXCEPT ![i] =
                   Append(@, UpstreamErrorResponse(headers[i], response[i], t))]
    /\ pc' = [pc EXCEPT ![i] = "returned"]
    /\ UNCHANGED <<env, method, token, response, headers, requests>>

\* TextRejected with response.text() awaited outside the try: the rejection
\* leaves the handler and no response is sent
TextRejectedUncaught(i, msg) ==
    /\ pc[i] = "awaitText"
    /\ outcome' = [outcome EXCEPT ![i].text = "rejected", ![i].message = msg]
    /\ pc' = [pc EXCEPT ![i] = "threw"]
    /\ UNCHANGED <<env, method, token, response, headers, sent, requests>>

\* lines 37, 40-42: response.text() rejects inside the try; the catch answers
TextRejected(i, msg) ==
    /\ pc[i] = "awaitText"
    /\ outcome' = [outcome EXCEPT ![i].text = "rejected", ![i].message = msg]
    /\ sent' = [sent EXCEPT ![i] =
                   Append(@, CatchResponse(headers[i], [message |-> msg]))]
    /\ pc' = [pc EXCEPT ![i] = "returned"]
    /\ UNCHANGED <<env, method, token, response, headers, requests>>

Next ==
    \E i \in Invocations :
        \/ \E m \in Methods : Invoke(i, m)
        \/ \E s \in UpstreamStatuses : FetchResolved(i, s)
        \/ \E msg \in FailureMessages : FetchRejected(i, msg)
        \/ \E t \in UpstreamTexts : TextResolved(i, t)
        \/ \E msg \in FailureMessages : TextRejected(i, msg)

Spec == Init /\ [][Next]_vars


\* invocation i resumes after the promise it awaits has settled
Resume(i) ==
    \/ \E s \in UpstreamStatuses : FetchResolved(i, s)
    \/ \E msg \in FailureMessages : FetchRejected(i, msg)
    \/ \E t \in UpstreamTexts : TextResolved(i, t)
    \/ \E msg \in FailureMessages : TextRejected(i, msg)

\* the transport settles every call it was given, by resolving or rejecting,
\* and the event loop then resumes the handler that awaits it
Fairness == \A i \in Invocations : WF_vars(Resume(i))

FairSpec == Spec /\ Fairness

\* ------------------------------------------------------------ properties
\* the credential is configured: GITHUB_TOKEN is set and not empty
Configured == env \notin {Undefined, ""}

\* the requests invocation i has issued
RequestsFrom(i) == {k \in 1..Len(requests) : requests[k].from = i}

\* invocation i has sent exactly the response (code, body)
SentExactly(i, code, body) ==
    /\ Len(sent[i]) = 1
    /\ sent[i][1].status = code
    /\ sent[i][1].body = body

JsonBody(obj) == [kind |-> "json", value |-> obj]

SuccessBody == JsonBody([success |-> TRUE, message |-> "Dashboard update triggered!"])

\* a response whose body carries success: true
SaysSuccess(r) ==
    /\ r.body.kind = "json"
    /\ "success" \in DOMAIN r.body.value
    /\ r.body.value.success = TRUE

\* invocation i is a POST under a configured credential, so it dispatches
Dispatching(i) == pc[i] # "idle" /\ method[i] = "POST" /\ Configured

\* the three CORS headers are among h
HasCors(h) ==
    /\ {"Access-Control-Allow-Origin", "Access-Control-Allow-Methods",
        "Access-Control-Allow-Headers"} \subseteq DOMAIN h
    /\ h["Access-Control-Allow-Origin"] = "*"
    /\ h["Access-Control-Allow-Methods"] = "POST, OPTIONS"
    /\ h["Access-Control-Allow-Headers"] = "Content-Type"

\* C1: a POST under a configured credential whose fetch resolved with 204 has
\* sent 200 {success: true, message: "Dashboard update triggered!"}, and a
\* body with success: true is sent only by an invocation whose upstream
\* status was 204.
C1_SuccessIffNoContent ==
    \A i \in Invocations :
        /\ (Dispatching(i) /\ outcome[i].fetch = "resolved" /\ outcome[i].status = 204)
              => SentExactly(i, 200, SuccessBody)
        /\ \A k \in 1..Len(sent[i]) :
              SaysSuccess(sent[i][k])
                 => (outcome[i].fetch = "resolved" /\ outcome[i].status = 204)

C1_Witness ==
    \E i \in Invocations :
        /\ Dispatching(i) /\ pc[i] = "returned"
        /\ outcome[i].fetch = "resolved" /\ outcome[i].status = 204
        /\ SaysSuccess(sent[i][1])

\* C2 as stated: every POST under a configured credential whose fetch resolved
\* with a status other than 204 answers with the upstream's status and the
\* body {error: "GitHub API error: " + upstream text}.
C2_EveryNon204ForwardsStatus ==
    \A i \in Invocations :
        (Dispatching(i) /\ pc[i] = "returned"
            /\ outcome[i].fetch = "resolved" /\ outcome[i].status # 204)
           => /\ Len(sent[i]) = 1
              /\ sent[i][1].status = outcome[i].status
              /\ \E t \in UpstreamTexts :
                    sent[i][1].body = JsonBody([error |-> "GitHub API error: " \o t])

\* C2 amended: a POST under a configured credential whose fetch resolved with
\* a status other than 204 sends nothing before the upstream body is read;
\* when the read yields text t it answers with the upstream's own status and
\* {error: "GitHub API error: " + t}; when the read fails with message m it
\* answers 500 {error: m}.
C2_Non204ForwardsStatusWhenTextRead ==
    \A i \in Invocations :
        (Dispatching(i) /\ outcome[i].fetch = "resolved" /\ outcome[i].status # 204)
           => /\ outcome[i].text = "none"
                    => (pc[i] = "awaitText" /\ sent[i] = <<>>)
              /\ outcome[i].text = "resolved"
                    => /\ pc[i] = "returned"
                       /\ SentExactly(i, outcome[i].status,
                             JsonBody([error |-> "GitHub API error: " \o outcome[i].body]))
              /\ outcome[i].text = "rejected"
                    => /\ pc[i] = "returned"
                       /\ SentExactly(i, 500, JsonBody([error |-> outcome[i].message]))

C2_Witness ==
    \E i, j \in Invocations :
        /\ Dispatching(i) /\ pc[i] = "returned"
        /\ outcome[i].status = 422 /\ outcome[i].text = "resolved"
        /\ outcome[i].body = "bad ref"
        /\ sent[i][1].status = 422
        /\ Dispatching(j) /\ pc[j] = "returned"
        /\ outcome[j].status = 200 /\ outcome[j].text = "resolved"
        /\ sent[j][1].status = 200

\* C3: a POST with no credential configured (unset or empty) has sent
\* 500 {error: "GitHub token not configured"} and has issued no fetch.
C3_MissingTokenIs500NoFetch ==
    \A i \in Invocations :
        (pc[i] # "idle" /\ method[i] = "POST" /\ ~Configured)
           => /\ pc[i] = "returned"
              /\ SentExactly(i, 500, JsonBody([error |-> "GitHub token not configured"]))
              /\ RequestsFrom(i) = {}

C3_Witness ==
    \E i \in Invocations :
        /\ env = "" /\ method[i] = "POST" /\ pc[i] = "returned"
        /\ sent[i][1].status = 500

\* C4: an invocation whose method is neither OPTIONS nor POST has sent
\* 405 {error: "Method not allowed"}, with or without a credential, and has
\* issued no fetch.
C4_OtherMethodIs405 ==
    \A i \in Invocations :
        (pc[i] # "idle" /\ method[i] \notin {"OPTIONS", "POST"})
           => /\ pc[i] = "returned"
              /\ SentExactly(i, 405, JsonBody([error |-> "Method not allowed"]))
              /\ RequestsFrom(i) = {}

C4_Witness ==
    \E i \in Invocations :
        /\ ~Configured /\ method[i] = "GET" /\ pc[i] = "returned"
        /\ sent[i][1].status = 405

\* C5: an OPTIONS invocation has sent 200 with an empty body, with or without
\* a credential, and has returned without reading the credential or issuing
\* a fetch.
C5_PreflightIs200Empty ==
    \A i \in Invocations :
        (pc[i] # "idle" /\ method[i] = "OPTIONS")
           => /\ pc[i] = "returned"
              /\ SentExactly(i, 200, [kind |-> "empty"])
              /\ token[i] = "<unread>"
              /\ RequestsFrom(i) = {}

C5_Witness ==
    \E i \in Invocations :
        /\ ~Configured /\ method[i] = "OPTIONS" /\ pc[i] = "returned"
        /\ sent[i][1].status = 200 /\ token[i] = "<unread>"

\* C6: a POST under a configured credential whose fetch rejected with message
\* m has sent 500 {error: m}.
C6_FetchFailureIs500 ==
    \A i \in Invocations :
        (Dispatching(i) /\ outcome[i].fetch = "rejected")
           => /\ pc[i] = "returned"
              /\ SentExactly(i, 500, JsonBody([error |-> outcome[i].message]))

C6_Witness ==
    \E i \in Invocations :
        /\ Dispatching(i) /\ outcome[i].fetch = "rejected"
        /\ outcome[i].message = "ECONNRESET"
        /\ sent[i][1].body = JsonBody([error |-> "ECONNRESET"])

\* C7: every response sent, on every branch, carries the three CORS headers;
\* they are on res before a response is sent and, once set, are never removed
\* or overwritten.
C7_CorsOnEveryResponse ==
    /\ [](\A i \in Invocations :
            /\ \A k \in 1..Len(sent[i]) : HasCors(sent[i][k].headers)
            /\ pc[i] # "idle" => HasCors(headers[i]))
    /\ [][\A i \in Invocations : HasCors(headers[i]) => HasCors(headers'[i])]_vars

\* a preflight and a POST that ended in the catch block have both answered
C7_Witness ==
    \E i, j \in Invocations :
        /\ pc[i] = "returned" /\ method[i] = "OPTIONS"
        /\ pc[j] = "returned" /\ outcome[j].fetch = "rejected"
        /\ HasCors(sent[i][1].headers) /\ HasCors(sent[j][1].headers)

\* C8: no invocation ends by throwing, none sends a second response, and
\* every invocation that was started ends having sent exactly one response,
\* whatever its method, the credential and the upstream's behaviour.
C8_AlwaysExactlyOneResponse ==
    /\ [](\A i \in Invocations :
            /\ pc[i] # "threw"
            /\ Len(sent[i]) <= 1
            /\ pc[i] = "returned" <=> Len(sent[i]) = 1)
    /\ \A i \in Invocations :
          (pc[i] # "idle") ~> (pc[i] = "returned" /\ Len(sent[i]) = 1)

C8_Witness ==
    \E i \in Invocations :
        /\ outcome[i].fetch = "resolved" /\ outcome[i].text = "rejected"
        /\ pc[i] = "returned" /\ Len(sent[i]) = 1

\* C9: a POST under a configured credential has issued exactly one dispatch
\* request, whatever the upstream answered, and every other invocation none;
\* so the requests issued number the dispatching invocations started, each
\* the fixed workflow-dispatch request bearing the credential.
C9_OneDispatchPerPost ==
    /\ \A i \in Invocations :
          Cardinality(RequestsFrom(i)) = IF Dispatching(i) THEN 1 ELSE 0
    /\ Len(requests) = Cardinality({i \in Invocations : Dispatching(i)})
    /\ \A k \in 1..Len(requests) :
          /\ requests[k].method = "POST"
          /\ requests[k].body = [ref |-> "main"]
          /\ requests[k].authorization = "Bearer " \o env

\* two POSTs have run to their end, one on a rejected fetch and one on a
\* non-204 answer, and two requests were issued
C9_Witness ==
    /\ Len(requests) = 2
    /\ \E i, j \in Invocations :
          /\ pc[i] = "returned" /\ outcome[i].fetch = "rejected"
          /\ pc[j] = "returned" /\ outcome[j].fetch = "resolved"
          /\ outcome[j].status = 422

\* the response an invocation with method m under credential e sends when it
\* runs alone and the upstream answers its call with o
SoloStatus(m, e, o) ==
    IF m = "OPTIONS" THEN 200
    ELSE IF m # "POST" THEN 405
    ELSE IF e \in {Undefined, ""} THEN 500
    ELSE IF o.fetch = "rejected" THEN 500
    ELSE IF o.status = 204 THEN 200
    ELSE IF o.text = "rejected" THEN 500
    ELSE o.status

SoloBody(m, e, o) ==
    IF m = "OPTIONS" THEN [kind |-> "empty"]
    ELSE IF m # "POST" THEN JsonBody([error |-> "Method not allowed"])
    ELSE IF e \in {Undefined, ""} THEN JsonBody([error |-> "GitHub token not configured"])
    ELSE IF o.fetch = "rejected" THEN JsonBody([error |-> o.message])
    ELSE IF o.status = 204 THEN SuccessBody
    ELSE IF o.text = "rejected" THEN JsonBody([error |-> o.message])
    ELSE JsonBody([error |-> "GitHub API error: " \o o.body])

\* C10: under any interleaving of invocations at their awaits, the response
\* of each is the one its own method, the credential and the outcome of its
\* own outbound call determine, and no step writes the credential.
C10_ResponseIsOwn ==
    /\ [](\A i \in Invocations :
            pc[i] = "returned"
               => SentExactly(i, SoloStatus(method[i], env, outcome[i]),
                                 SoloBody(method[i], env, outcome[i])))
    /\ [][env' = env]_vars

\* invocation i issued its call first and still awaits the upstream body,
\* while invocation j, started after it, has already answered on another
\* upstream status
C10_Witness ==
    \E i, j \in Invocations :
        /\ Len(requests) >= 2
        /\ requests[1].from = i /\ requests[2].from = j
        /\ pc[i] = "awaitText" /\ outcome[i].status = 422
        /\ pc[j] = "returned" /\ outcome[j].status = 401
        /\ sent[j][1].status = 401
====
